---- MODULE Spec2Model ----
(***************************************************************************)
(* Model of the library linker of ethcontract (src/contract/link.rs).      *)
(*                                                                         *)
(* A Linker is created from an artifact's bytecode and constructor         *)
(* parameters, accumulates library entries with library_at /               *)
(* deploy_library_bytecode, and is consumed by link(), which either        *)
(* returns a Deployment or a LinkerError.                                  *)
(***************************************************************************)
EXTENDS Integers, Sequences, FiniteSets, TLC

(***************************************************************************)
(* Bounds of the model.                                                    *)
(***************************************************************************)
MaxPlaceholders == 3   \* most placeholder slots in an artifact's bytecode
MaxEntries == 3        \* most library entries added to one linker

(***************************************************************************)
(* Values.                                                                 *)
(***************************************************************************)
Names == {"Library0", "Library1"}

\* An address is Address::repeat_byte(b); it is identified by the byte b.
Addresses == {1, 2}

\* Width of a link placeholder and of an address, in bytes.
AddressLen == 20

\* A bytecode is a sequence of slots: a plain code byte, a placeholder
\* naming a library, or an address that was linked into a placeholder.
Code(b) == [t |-> "code", name |-> "", byte |-> b]
Lib(n) == [t |-> "lib", name |-> n, byte |-> 0]
Addr(a) == [t |-> "addr", name |-> "", byte |-> a]

SeqsUpTo(S, n) == UNION {[1..k -> S] : k \in 0..n}

\* Bytecodes an artifact may carry: the empty one, and a code byte followed
\* by placeholders ("0x00__Library0___...").
ArtifactBytecodes ==
    {<<>>} \cup {<<Code(0)>> \o s :
                    s \in SeqsUpTo({Lib(n) : n \in Names}, MaxPlaceholders)}

\* Bytecodes handed to deploy_library_bytecode: "0x00" and a bytecode that
\* itself still has a placeholder.
LibraryBytecodes == {<<Code(0)>>, <<Code(0), Lib("Library1")>>}

\* enum Library
Resolved(a) == [kind |-> "Resolved", address |-> a, bytecode |-> <<>>]
Pending(b) == [kind |-> "Pending", address |-> 0, bytecode |-> b]

(***************************************************************************)
(* Bytecode (ethcontract_common::Bytecode).                                *)
(***************************************************************************)
RECURSIVE Repeat(_, _)
Repeat(b, n) == IF n = 0 THEN <<>> ELSE <<b>> \o Repeat(b, n - 1)

Bytecode_is_empty(bc) == Len(bc) = 0

\* The names of the placeholders of bc, each once, in the order in which
\* they first occur.
RECURSIVE UndefinedFrom(_, _, _)
UndefinedFrom(bc, i, seen) ==
    IF i > Len(bc) THEN <<>>
    ELSE IF bc[i].t = "lib" /\ bc[i].name \notin seen
         THEN <<bc[i].name>> \o UndefinedFrom(bc, i + 1, seen \cup {bc[i].name})
         ELSE UndefinedFrom(bc, i + 1, seen)

Bytecode_undefined_libraries(bc) == UndefinedFrom(bc, 1, {})

HasPlaceholder(bc, name) ==
    \E i \in 1..Len(bc) : bc[i].t = "lib" /\ bc[i].name = name

\* Bytecode::link: every placeholder of the name is replaced by the address;
\* it is an error when the bytecode has no placeholder of the name.
Bytecode_link(bc, name, address) ==
    IF HasPlaceholder(bc, name)
    THEN [ok |-> TRUE,
          bytecode |-> [i \in 1..Len(bc) |->
                           IF bc[i].t = "lib" /\ bc[i].name = name
                           THEN Addr(address) ELSE bc[i]]]
    ELSE [ok |-> FALSE, bytecode |-> bc]

\* Bytecode::to_bytes: the dense bytes of a bytecode without placeholders.
RECURSIVE BytesFrom(_, _)
BytesFrom(bc, i) ==
    IF i > Len(bc) THEN <<>>
    ELSE (IF bc[i].t = "addr" THEN Repeat(bc[i].byte, AddressLen)
          ELSE <<bc[i].byte>>) \o BytesFrom(bc, i + 1)

Bytecode_to_bytes(bc) ==
    IF Bytecode_undefined_libraries(bc) # <<>>
    THEN [ok |-> FALSE, bytes |-> <<>>]
    ELSE [ok |-> TRUE, bytes |-> BytesFrom(bc, 1)]

(***************************************************************************)
(* Constructor parameters (Tokenize / ethabi Constructor::encode_input).   *)
(***************************************************************************)
\* Length of one ABI-encoded word, in bytes.
WordLen == 32

\* The token lists a caller passes as constructor parameters.
ParamTokens == {<<>>, <<7>>}

\* The artifact's ABI either has no constructor or one with a single input.
Constructors == {"none", "uint"}

\* encode_input(Vec::new(), params): one big-endian word per token; the
\* number of tokens must be the number of constructor inputs.
RECURSIVE EncodeTokens(_, _)
EncodeTokens(tokens, i) ==
    IF i > Len(tokens) THEN <<>>
    ELSE Repeat(0, WordLen - 1) \o <<tokens[i]>> \o EncodeTokens(tokens, i + 1)

Constructor_encode_input(ctor, tokens) ==
    IF Len(tokens) # 1
    THEN [ok |-> FALSE, bytes |-> <<>>]
    ELSE [ok |-> TRUE, bytes |-> EncodeTokens(tokens, 1)]

(***************************************************************************)
(* Results: LinkerError and Deployment.                                    *)
(***************************************************************************)
NoError == [kind |-> "none", name |-> ""]
Error(kind, name) == [kind |-> kind, name |-> name]

\* Result<Deployment, LinkerError>.  An Err carries no deployment.
Err(e) == [kind |-> e.kind, name |-> e.name, libraries |-> <<>>,
           contract |-> [bytecode |-> <<>>, params |-> <<>>]]
Ok(libraries_to_deploy, bytecode, params) ==
    [kind |-> "Ok", name |-> "", libraries |-> libraries_to_deploy,
     contract |-> [bytecode |-> bytecode, params |-> params]]
NoResult == Err(NoError)

\* Variant: the link failure is kept as an error kind of its own.
LinkerError_from_link(name) == Error("Link", name)

\* The conversion applied by `?` to a failure of Bytecode::link for a
\* library name.
LinkerError_from(name) == Error("UnusedDependency", name)

(***************************************************************************)
(* Linker::link.                                                           *)
(***************************************************************************)
EmptyMap == [n \in {} |-> <<>>]
Insert(map, k, v) == [n \in DOMAIN map \cup {k} |-> IF n = k THEN v ELSE map[n]]
Remove(map, k) == [n \in DOMAIN map \ {k} |-> map[n]]

\* Variant: a repeated Pending name replaces the earlier bytecode.
LinkLibrary_overwrite(acc, entry) ==
    IF entry.library.kind = "Resolved"
    THEN LET r == Bytecode_link(acc.bytecode, entry.name, entry.library.address)
         IN  IF r.ok
             THEN [acc EXCEPT !.bytecode = r.bytecode]
             ELSE [acc EXCEPT !.err = LinkerError_from(entry.name)]
    ELSE [acc EXCEPT !.pending = Insert(acc.pending, entry.name,
                                        entry.library.bytecode)]

\* Variant: a failure of Bytecode::link is dropped instead of returned.
LinkLibrary_ignore_link(acc, entry) ==
    IF entry.library.kind = "Resolved"
    THEN [acc EXCEPT !.bytecode =
              Bytecode_link(acc.bytecode, entry.name,
                            entry.library.address).bytecode]
    ELSE IF entry.name \in DOMAIN acc.pending
         THEN [acc EXCEPT !.err = Error("UnusedDependency", entry.name)]
         ELSE [acc EXCEPT !.pending = Insert(acc.pending, entry.name,
                                             entry.library.bytecode)]

\* Variant: the address is linked into a copy of the bytecode that is
\* thrown away.
LinkLibrary_no_store(acc, entry) ==
    IF entry.library.kind = "Resolved"
    THEN LET r == Bytecode_link(acc.bytecode, entry.name, entry.library.address)
         IN  IF r.ok
             THEN acc
             ELSE [acc EXCEPT !.err = LinkerError_from(entry.name)]
    ELSE IF entry.name \in DOMAIN acc.pending
         THEN [acc EXCEPT !.err = Error("UnusedDependency", entry.name)]
         ELSE [acc EXCEPT !.pending = Insert(acc.pending, entry.name,
                                             entry.library.bytecode)]

\* One iteration of the loop over self.libraries.
LinkLibrary(acc, entry) ==
    IF entry.library.kind = "Resolved"
    THEN LET r == Bytecode_link(acc.bytecode, entry.name, entry.library.address)
         IN  IF r.ok
             THEN [acc EXCEPT !.bytecode = r.bytecode]
             ELSE [acc EXCEPT !.err = LinkerError_from(entry.name)]
    ELSE IF entry.name \in DOMAIN acc.pending
         THEN [acc EXCEPT !.err = Error("UnusedDependency", entry.name)]
         ELSE [acc EXCEPT !.pending = Insert(acc.pending, entry.name,
                                             entry.library.bytecode)]

\* The loop over self.libraries; it stops at the first error.
RECURSIVE LinkLibraries(_, _, _)
LinkLibraries(acc, libs, i) ==
    IF i > Len(libs) \/ acc.err # NoError THEN acc
    ELSE LinkLibraries(LinkLibrary(acc, libs[i]), libs, i + 1)

\* Variant: a library is put in front of the libraries found so far.
DeployLibrary_prepend(acc, library) ==
    IF library \in DOMAIN acc.pending
    THEN LET bytes == Bytecode_to_bytes(acc.pending[library])
             rest == Remove(acc.pending, library)
         IN  IF bytes.ok
             THEN [acc EXCEPT !.pending = rest,
                              !.to_deploy = <<<<library, bytes.bytes>>>> \o @]
             ELSE [acc EXCEPT !.pending = rest,
                              !.err = Error("NestedDependencies", library)]
    ELSE [acc EXCEPT !.err = Error("MissingDependency", library)]

\* Variant: a placeholder without a Pending entry is passed over.
DeployLibrary_skip_missing(acc, library) ==
    IF library \in DOMAIN acc.pending
    THEN LET bytes == Bytecode_to_bytes(acc.pending[library])
             rest == Remove(acc.pending, library)
         IN  IF bytes.ok
             THEN [acc EXCEPT !.pending = rest,
                              !.to_deploy = Append(@, <<library, bytes.bytes>>)]
             ELSE [acc EXCEPT !.pending = rest,
                              !.err = Error("NestedDependencies", library)]
    ELSE acc

\* Variant: a library bytecode that does not convert to bytes is deployed
\* with no bytes.
DeployLibrary_nested_ok(acc, library) ==
    IF library \in DOMAIN acc.pending
    THEN [acc EXCEPT !.pending = Remove(acc.pending, library),
                     !.to_deploy =
                         Append(@, <<library,
                                     Bytecode_to_bytes(acc.pending[library]).bytes>>)]
    ELSE [acc EXCEPT !.err = Error("MissingDependency", library)]

\* Variant: a library is taken out of the pending map and not returned.
DeployLibrary_drop(acc, library) ==
    IF library \in DOMAIN acc.pending
    THEN LET bytes == Bytecode_to_bytes(acc.pending[library])
             rest == Remove(acc.pending, library)
         IN  IF bytes.ok
             THEN [acc EXCEPT !.pending = rest]
             ELSE [acc EXCEPT !.pending = rest,
                              !.err = Error("NestedDependencies", library)]
    ELSE [acc EXCEPT !.err = Error("MissingDependency", library)]

\* One iteration of the loop over contract_bytecode.undefined_libraries().
DeployLibrary(acc, library) ==
    IF library \in DOMAIN acc.pending
    THEN LET bytes == Bytecode_to_bytes(acc.pending[library])
             rest == Remove(acc.pending, library)
         IN  IF bytes.ok
             THEN [acc EXCEPT !.pending = rest,
                              !.to_deploy = Append(@, <<library, bytes.bytes>>)]
             ELSE [acc EXCEPT !.pending = rest,
                              !.err = Error("NestedDependencies", library)]
    ELSE [acc EXCEPT !.err = Error("MissingDependency", library)]

\* The loop over contract_bytecode.undefined_libraries(); it stops at the
\* first error.
RECURSIVE DeployLibraries(_, _, _)
DeployLibraries(acc, undefined, i) ==
    IF i > Len(undefined) \/ acc.err # NoError THEN acc
    ELSE DeployLibraries(DeployLibrary(acc, undefined[i]), undefined, i + 1)

\* pending_libraries.keys().next(): a HashMap iterates in an unspecified
\* order, every remaining key may be the first one.
UnusedDependencies(pending) ==
    {Error("UnusedDependency", n) : n \in DOMAIN pending}

\* Variant: the entries left in the pending map are not looked at.
Linker_link_no_unused(bytecode, params, libs) ==
    LET linked == LinkLibraries([bytecode |-> bytecode, pending |-> EmptyMap,
                                 err |-> NoError], libs, 1)
        deployed == DeployLibraries([pending |-> linked.pending,
                                     to_deploy |-> <<>>, err |-> NoError],
                                    Bytecode_undefined_libraries(linked.bytecode), 1)
    IN  IF linked.err # NoError THEN {Err(linked.err)}
        ELSE IF deployed.err # NoError THEN {Err(deployed.err)}
        ELSE {Ok(deployed.to_deploy, linked.bytecode, params)}

\* Variant: the deployment gets the bytecode the linker was created with.
Linker_link_unlinked(bytecode, params, libs) ==
    LET linked == LinkLibraries([bytecode |-> bytecode, pending |-> EmptyMap,
                                 err |-> NoError], libs, 1)
        deployed == DeployLibraries([pending |-> linked.pending,
                                     to_deploy |-> <<>>, err |-> NoError],
                                    Bytecode_undefined_libraries(linked.bytecode), 1)
    IN  IF linked.err # NoError THEN {Err(linked.err)}
        ELSE IF deployed.err # NoError THEN {Err(deployed.err)}
        ELSE IF DOMAIN deployed.pending # {}
             THEN {Err(e) : e \in UnusedDependencies(deployed.pending)}
        ELSE {Ok(deployed.to_deploy, bytecode, params)}

\* Variant: the entries the target has no use for are reported before the
\* placeholders are looked up.
Linker_link_unused_first(bytecode, params, libs) ==
    LET linked == LinkLibraries([bytecode |-> bytecode, pending |-> EmptyMap,
                                 err |-> NoError], libs, 1)
        undefined == Bytecode_undefined_libraries(linked.bytecode)
        deployed == DeployLibraries([pending |-> linked.pending,
                                     to_deploy |-> <<>>, err |-> NoError],
                                    undefined, 1)
        unused == {n \in DOMAIN linked.pending :
                      \A i \in 1..Len(undefined) : undefined[i] # n}
    IN  IF linked.err # NoError THEN {Err(linked.err)}
        ELSE IF unused # {}
             THEN {Err(Error("UnusedDependency", n)) : n \in unused}
        ELSE IF deployed.err # NoError THEN {Err(deployed.err)}
        ELSE {Ok(deployed.to_deploy, linked.bytecode, params)}

\* The results link() may return for a linker with the given fields.
Linker_link(bytecode, params, libs) ==
    LET linked == LinkLibraries([bytecode |-> bytecode, pending |-> EmptyMap,
                                 err |-> NoError], libs, 1)
        deployed == DeployLibraries([pending |-> linked.pending,
                                     to_deploy |-> <<>>, err |-> NoError],
                                    Bytecode_undefined_libraries(linked.bytecode), 1)
    IN  IF linked.err # NoError THEN {Err(linked.err)}
        ELSE IF deployed.err # NoError THEN {Err(deployed.err)}
        ELSE IF DOMAIN deployed.pending # {}
             THEN {Err(e) : e \in UnusedDependencies(deployed.pending)}
        ELSE {Ok(deployed.to_deploy, linked.bytecode, params)}

(***************************************************************************)
(* State.                                                                  *)
(***************************************************************************)
VARIABLES
    pc,                         \* "new", "linker", "done" or "failed"
    context,                    \* Linker.context: the artifact given to new()
    params,                     \* the constructor parameters given to new()
    contract_bytecode,          \* Linker.contract_bytecode
    encoded_contructor_params,  \* Linker.encoded_contructor_params
    libraries,                  \* Linker.libraries
    result                      \* what new() or link() returned

linker_vars == <<pc, context, params, contract_bytecode,
                 encoded_contructor_params, libraries, result>>

\* TransactionData::sign and its locals.
VARIABLES
    sign_pc,        \* "idle", "start", "done" or "panic"
    tx,             \* TransactionData
    key,            \* the private key
    chain_id,       \* Option<u64>
    overflow_checks,\* whether the build checks integer overflows
    unsigned,       \* rlp.as_raw() when the hash is taken
    hash,           \* hash::keccak256 of the unsigned encoding
    recovery_id,    \* the recovery id of the signature
    sig,            \* the compact signature, r and s
    sig_v,          \* what add_chain_replay_protection returned
    raw             \* the bytes sign() returns

sign_vars == <<sign_pc, tx, key, chain_id, overflow_checks, unsigned, hash,
               recovery_id, sig, sig_v, raw>>

vars == <<linker_vars, sign_vars>>

NoContext == [bytecode |-> <<>>, constructor |-> "none"]
NoTransaction ==
    [nonce |-> <<>>, gas_price |-> <<>>, gas |-> <<>>, to |-> <<>>,
     value |-> <<>>, data |-> <<>>]

\* No linker exists yet.
LinkerInit ==
    /\ pc = "new"
    /\ context = NoContext
    /\ params = <<>>
    /\ contract_bytecode = <<>>
    /\ encoded_contructor_params = <<>>
    /\ libraries = <<>>
    /\ result = NoResult

\* No transaction is being signed.
SignIdle ==
    /\ sign_pc = "idle"
    /\ tx = NoTransaction
    /\ key = <<>>
    /\ chain_id = <<>>
    /\ overflow_checks = FALSE
    /\ unsigned = <<>>
    /\ hash = <<>>
    /\ recovery_id = 0
    /\ sig = <<>>
    /\ sig_v = <<>>
    /\ raw = <<>>

Init == LinkerInit /\ SignIdle

\* Variant: the constructor parameters are encoded before the bytecode is
\* looked at.
New_encode_first(bytecode, ctor, tokens) ==
    /\ pc = "new"
    /\ LET encoded == Constructor_encode_input(ctor, tokens)
           failure ==
               IF ctor = "none" /\ tokens # <<>> THEN Error("Abi", "")
               ELSE IF ctor # "none" /\ ~encoded.ok THEN Error("Abi", "")
               ELSE IF Bytecode_is_empty(bytecode) THEN Error("EmptyBytecode", "")
               ELSE NoError
       IN  IF failure # NoError
           THEN /\ pc' = "failed"
                /\ result' = Err(failure)
                /\ UNCHANGED <<contract_bytecode, encoded_contructor_params>>
           ELSE /\ pc' = "linker"
                /\ contract_bytecode' = bytecode
                /\ encoded_contructor_params' =
                       IF ctor = "none" THEN <<>> ELSE encoded.bytes
                /\ UNCHANGED result
    /\ context' = [bytecode |-> bytecode, constructor |-> ctor]
    /\ params' = tokens
    /\ libraries' = <<>>
    /\ UNCHANGED sign_vars

\* Linker::new
New(bytecode, ctor, tokens) ==
    /\ pc = "new"
    /\ LET encoded == Constructor_encode_input(ctor, tokens)
           failure ==
               IF Bytecode_is_empty(bytecode) THEN Error("EmptyBytecode", "")
               ELSE IF ctor = "none" /\ tokens # <<>> THEN Error("Abi", "")
               ELSE IF ctor # "none" /\ ~encoded.ok THEN Error("Abi", "")
               ELSE NoError
       IN  IF failure # NoError
           THEN /\ pc' = "failed"
                /\ result' = Err(failure)
                /\ UNCHANGED <<contract_bytecode, encoded_contructor_params>>
           ELSE /\ pc' = "linker"
                /\ contract_bytecode' = bytecode
                /\ encoded_contructor_params' =
                       IF ctor = "none" THEN <<>> ELSE encoded.bytes
                /\ UNCHANGED result
    /\ context' = [bytecode |-> bytecode, constructor |-> ctor]
    /\ params' = tokens
    /\ libraries' = <<>>
    /\ UNCHANGED sign_vars

\* Variant: a library with an address is linked into the bytecode when it
\* is added.
add_library_eager(name, library) ==
    /\ pc = "linker"
    /\ Len(libraries) < MaxEntries
    /\ libraries' = Append(libraries, [name |-> name, library |-> library])
    /\ contract_bytecode' =
           IF library.kind = "Resolved"
           THEN Bytecode_link(contract_bytecode, name, library.address).bytecode
           ELSE contract_bytecode
    /\ UNCHANGED <<pc, context, params, encoded_contructor_params, result>>
    /\ UNCHANGED sign_vars

\* Linker::add_library
add_library(name, library) ==
    /\ pc = "linker"
    /\ Len(libraries) < MaxEntries
    /\ libraries' = Append(libraries, [name |-> name, library |-> library])
    /\ UNCHANGED <<pc, context, params, contract_bytecode,
                   encoded_contructor_params, result>>
    /\ UNCHANGED sign_vars

\* Linker::library_at
library_at(name, address) == add_library(name, Resolved(address))

\* Linker::deploy_library_bytecode
deploy_library_bytecode(name, bytecode) == add_library(name, Pending(bytecode))

\* Linker::link.  The linker is consumed; its fields stay as the record of
\* what was linked.
link ==
    /\ pc = "linker"
    /\ pc' = "done"
    /\ result' \in Linker_link(contract_bytecode, encoded_contructor_params,
                               libraries)
    /\ UNCHANGED <<context, params, contract_bytecode,
                   encoded_contructor_params, libraries>>
    /\ UNCHANGED sign_vars

Next ==
    \/ \E b \in ArtifactBytecodes, c \in Constructors, t \in ParamTokens :
           New(b, c, t)
    \/ \E n \in Names, a \in Addresses : library_at(n, a)
    \/ \E n \in Names, b \in LibraryBytecodes : deploy_library_bytecode(n, b)
    \/ link

Spec == Init /\ [][Next]_vars

TypeOK ==
    /\ pc \in {"new", "linker", "done", "failed"}
    /\ Len(libraries) <= MaxEntries

(***************************************************************************)
(* What the linker was given, read off its fields.                         *)
(***************************************************************************)
Entries == 1..Len(libraries)
IsResolved(i) == libraries[i].library.kind = "Resolved"
IsPending(i) == libraries[i].library.kind = "Pending"
ResolvedNames == {libraries[i].name : i \in {k \in Entries : IsResolved(k)}}
PendingNames == {libraries[i].name : i \in {k \in Entries : IsPending(k)}}

\* The placeholders the target bytecode declares.
Declared ==
    {contract_bytecode[i].name :
        i \in {k \in 1..Len(contract_bytecode) : contract_bytecode[k].t = "lib"}}

\* Where a declared placeholder first occurs in the target bytecode.
FirstPos(n) ==
    CHOOSE i \in 1..Len(contract_bytecode) :
        /\ contract_bytecode[i] = Lib(n)
        /\ \A k \in 1..(i - 1) : contract_bytecode[k] # Lib(n)

\* Entry i cannot be applied: a Resolved entry whose name is not declared or
\* was resolved by an earlier entry, or a Pending entry repeating a name.
EntryFails(i) ==
    \/ /\ IsResolved(i)
       /\ \/ libraries[i].name \notin Declared
          \/ \E k \in 1..(i - 1) :
                 IsResolved(k) /\ libraries[k].name = libraries[i].name
    \/ /\ IsPending(i)
       /\ \E k \in 1..(i - 1) :
              IsPending(k) /\ libraries[k].name = libraries[i].name

NoEntryFails == \A i \in Entries : ~EntryFails(i)
FirstFailure(i) == EntryFails(i) /\ \A k \in 1..(i - 1) : ~EntryFails(k)

\* The placeholders left once every Resolved entry has been applied.
StillUndefined == Declared \ ResolvedNames

HasPlaceholders(b) == \E i \in 1..Len(b) : b[i].t = "lib"

\* The bytecode of the first Pending entry of a name.
PendingBytecode(n) ==
    libraries[CHOOSE i \in Entries :
                  /\ IsPending(i) /\ libraries[i].name = n
                  /\ \A k \in 1..(i - 1) :
                         ~(IsPending(k) /\ libraries[k].name = n)].library.bytecode

Missing(n) == n \in StillUndefined /\ n \notin PendingNames
NestedLibrary(n) ==
    n \in StillUndefined /\ n \in PendingNames /\ HasPlaceholders(PendingBytecode(n))
Unlinkable(n) == Missing(n) \/ NestedLibrary(n)
\* n is unlinkable and no unlinkable placeholder occurs before it.
FirstUnlinkable(n) ==
    Unlinkable(n) /\ \A m \in Names : Unlinkable(m) => FirstPos(n) <= FirstPos(m)

\* Pending entries the target has no use for.
Leftover == PendingNames \ StillUndefined

Failed(kind, name) == result.kind = kind /\ result.name = name
Succeeded == pc = "done" /\ result.kind = "Ok"
DeployedNames == [i \in 1..Len(result.libraries) |-> result.libraries[i][1]]

Perms(n) == {f \in [1..n -> 1..n] : \A i, j \in 1..n : f[i] = f[j] => i = j}
Permuted(f) == [i \in Entries |-> libraries[f[i]]]

(***************************************************************************)
(* Claims.                                                                 *)
(***************************************************************************)

\* C1: on a successful link() the returned libraries are exactly the
\* placeholders that are left for deployment, each once, in the order of
\* their first occurrence in the target bytecode, and every permutation of
\* the configuration calls that links returns the same list.
C1_DeployOrder ==
    Succeeded =>
        /\ {DeployedNames[i] : i \in DOMAIN DeployedNames} = StillUndefined
        /\ \A i, j \in DOMAIN DeployedNames :
               i < j => FirstPos(DeployedNames[i]) < FirstPos(DeployedNames[j])
        /\ \A f \in Perms(Len(libraries)) :
               \A r \in Linker_link(contract_bytecode,
                                    encoded_contructor_params, Permuted(f)) :
                   r.kind = "Ok" => r.libraries = result.libraries

\* Two libraries are deployed in the opposite order of their configuration
\* calls, and one of their placeholders occurs twice.
C1_Witness ==
    /\ Succeeded
    /\ Len(result.libraries) = 2
    /\ Len(libraries) = 2
    /\ libraries[1].name = DeployedNames[2]
    /\ \E i, j \in 1..Len(contract_bytecode) :
           i # j /\ contract_bytecode[i] = contract_bytecode[j]
                 /\ contract_bytecode[i].t = "lib"

\* C2 as stated: when every Resolved entry has been applied and a
\* placeholder is still unresolved and has no Pending entry, link() fails
\* with MissingDependency of such a placeholder.
C2_Original ==
    /\ pc = "done"
    /\ \A i \in Entries : IsResolved(i) => ~EntryFails(i)
    /\ \E n \in Names : Missing(n)
    => result.kind = "MissingDependency" /\ Missing(result.name)

\* C2: when no entry fails while the entries are walked, link() fails with
\* MissingDependency(name) for the first placeholder, in order of first
\* occurrence, that is unlinkable, if that placeholder has no Pending entry.
C2_MissingDependency ==
    pc = "done" /\ NoEntryFails =>
        \A n \in Names :
            FirstUnlinkable(n) /\ Missing(n) => Failed("MissingDependency", n)

\* A missing placeholder is reported although a library before it is deployed.
C2_Witness ==
    /\ pc = "done"
    /\ NoEntryFails
    /\ \E n \in Names :
           /\ FirstUnlinkable(n) /\ Missing(n)
           /\ Failed("MissingDependency", n)
           /\ \E m \in PendingNames \cap StillUndefined : FirstPos(m) < FirstPos(n)

\* Some name has two Pending entries.
RepeatedPending(n) ==
    \E i, j \in Entries :
        i < j /\ IsPending(i) /\ IsPending(j)
              /\ libraries[i].name = n /\ libraries[j].name = n

\* C3 as stated: when a name has two Pending entries, link() fails with
\* UnusedDependency of such a name.
C3_Original ==
    pc = "done" /\ (\E n \in Names : RepeatedPending(n)) =>
        result.kind = "UnusedDependency" /\ RepeatedPending(result.name)

\* C3: two Pending entries of one name make link() fail with
\* UnusedDependency; it names the repeated name when no entry before the
\* repetition fails, whether or not the target declares the name.
C3_DuplicatePending ==
    pc = "done" =>
        \A i, j \in Entries :
            i < j /\ IsPending(i) /\ IsPending(j)
                  /\ libraries[i].name = libraries[j].name
            => /\ result.kind = "UnusedDependency"
               /\ FirstFailure(j) => result.name = libraries[j].name

\* A repeated Pending name that the target does not declare is reported.
C3_Witness ==
    /\ pc = "done"
    /\ \E i, j \in Entries :
           /\ i < j /\ IsPending(i) /\ IsPending(j)
           /\ libraries[i].name = libraries[j].name
           /\ FirstFailure(j)
           /\ libraries[j].name \notin Declared
           /\ Failed("UnusedDependency", libraries[j].name)

\* A Pending entry of a placeholder the target still needs has a bytecode
\* with a placeholder of its own.
NestedEntry(n) ==
    \E i \in Entries :
        /\ IsPending(i)
        /\ libraries[i].name = n
        /\ n \in StillUndefined
        /\ HasPlaceholders(libraries[i].library.bytecode)

\* C4 as stated: when a needed Pending library has a bytecode with a
\* placeholder, link() fails with NestedDependencies of such a library.
C4_Original ==
    pc = "done" /\ (\E n \in Names : NestedEntry(n)) =>
        result.kind = "NestedDependencies" /\ NestedEntry(result.name)

\* C4: a needed Pending library whose bytecode has a placeholder never
\* links; link() fails with NestedDependencies of its name when no entry
\* fails while the entries are walked and the library is the first
\* unlinkable placeholder of the target.
C4_NestedDependencies ==
    pc = "done" =>
        \A i \in Entries :
            /\ IsPending(i)
            /\ libraries[i].name \in StillUndefined
            /\ HasPlaceholders(libraries[i].library.bytecode)
            => /\ result.kind # "Ok"
               /\ NoEntryFails /\ FirstUnlinkable(libraries[i].name)
                  => Failed("NestedDependencies", libraries[i].name)

\* The nested placeholder has an entry of its own and is still not resolved.
C4_Witness ==
    /\ pc = "done"
    /\ \E i \in Entries :
           /\ IsPending(i)
           /\ libraries[i].library.bytecode = <<Code(0), Lib("Library1")>>
           /\ libraries[i].name # "Library1"
           /\ "Library1" \in ResolvedNames \cup PendingNames
           /\ NoEntryFails
           /\ Failed("NestedDependencies", libraries[i].name)

\* C5: when no entry fails and no placeholder is unlinkable, a Pending entry
\* the target has no use for makes link() fail with UnusedDependency naming
\* such a leftover entry.
C5_UnusedDependency ==
    pc = "done" /\ NoEntryFails /\ (\A n \in Names : ~Unlinkable(n))
                /\ Leftover # {}
    => result.kind = "UnusedDependency" /\ result.name \in Leftover

\* The leftover entry is one whose name a Resolved entry also resolves.
C5_Witness ==
    /\ pc = "done"
    /\ NoEntryFails
    /\ result.kind = "UnusedDependency"
    /\ result.name \in Leftover \cap ResolvedNames

\* The first entry that fails is a Resolved entry.
FirstFailureResolved(i) == i \in Entries /\ IsResolved(i) /\ FirstFailure(i)

\* C6 as stated: a Resolved entry that is applied to a target which does not
\* declare its name makes link() fail with the link failure itself, not with
\* one of the dependency errors.
C6_Original ==
    pc = "done" =>
        \A i \in Entries :
            FirstFailureResolved(i) /\ libraries[i].name \notin Declared
            => result.kind \notin {"Ok", "UnusedDependency",
                                   "MissingDependency", "NestedDependencies"}

\* C6: a Resolved entry that is applied to a target which does not declare
\* its name makes link() fail with the link failure converted to
\* UnusedDependency of that name, never with MissingDependency or
\* NestedDependencies.
C6_UndeclaredResolved ==
    pc = "done" =>
        \A i \in Entries :
            FirstFailureResolved(i) /\ libraries[i].name \notin Declared
            => Failed("UnusedDependency", libraries[i].name)

\* The undeclared Resolved entry is reported although the target has a
\* placeholder nobody resolves.
C6_Witness ==
    /\ pc = "done"
    /\ \E i \in Entries :
           /\ FirstFailureResolved(i) /\ libraries[i].name \notin Declared
           /\ Failed("UnusedDependency", libraries[i].name)
    /\ \E n \in Names : Missing(n)

\* C7: a Resolved entry whose name is not an unresolved placeholder when it
\* is applied (never declared, or resolved by an earlier Resolved entry)
\* makes link() fail with UnusedDependency of that name.
C7_ResolvedNotUndefined ==
    pc = "done" =>
        \A i \in Entries :
            /\ IsResolved(i)
            /\ \A k \in 1..(i - 1) : ~EntryFails(k)
            /\ \/ libraries[i].name \notin Declared
               \/ \E k \in 1..(i - 1) :
                      IsResolved(k) /\ libraries[k].name = libraries[i].name
            => result.kind = "UnusedDependency" /\ result.name = libraries[i].name

\* The same declared library is given twice with library_at.
C7_Witness ==
    /\ pc = "done"
    /\ \E i, k \in Entries :
           /\ k < i /\ IsResolved(k) /\ IsResolved(i)
           /\ libraries[k].name = libraries[i].name
           /\ libraries[i].name \in Declared
           /\ FirstFailure(i)
           /\ Failed("UnusedDependency", libraries[i].name)

ContractUndefined == Bytecode_undefined_libraries(result.contract.bytecode)

\* C8 as stated: the contract bytecode of every successful link() has no
\* placeholder left and converts to bytes.
C8_Original ==
    Succeeded =>
        /\ ContractUndefined = <<>>
        /\ Bytecode_to_bytes(result.contract.bytecode).ok

\* C8: the contract bytecode of a successful link() has no placeholder of a
\* library given by library_at; it has no placeholder left and converts to
\* bytes exactly when no library is returned for deployment.
C8_LinkedContract ==
    Succeeded =>
        /\ \A i \in 1..Len(result.contract.bytecode) :
               result.contract.bytecode[i].t = "lib"
               => result.contract.bytecode[i].name \notin ResolvedNames
        /\ Bytecode_to_bytes(result.contract.bytecode).ok
               <=> result.libraries = <<>>
        /\ ContractUndefined = <<>> <=> result.libraries = <<>>

\* A contract with placeholders links into one that converts to bytes.
C8_Witness ==
    /\ Succeeded
    /\ Cardinality(Declared) >= 2
    /\ result.libraries = <<>>
    /\ Bytecode_to_bytes(result.contract.bytecode).ok
    /\ Len(Bytecode_to_bytes(result.contract.bytecode).bytes)
           = 1 + AddressLen * (Len(contract_bytecode) - 1)

\* The address a library_at entry gives for a name.
ResolvedAddress(n) ==
    libraries[CHOOSE i \in Entries :
                  IsResolved(i) /\ libraries[i].name = n].library.address

\* C9: after a successful link() the placeholders left in the contract
\* bytecode are the returned libraries, in the same order; every slot of a
\* library given by library_at holds its address, every other slot is as in
\* the target bytecode, and the constructor parameters are the linker's.
C9_ContractSlots ==
    Succeeded =>
        /\ ContractUndefined = DeployedNames
        /\ Len(result.contract.bytecode) = Len(contract_bytecode)
        /\ \A i \in 1..Len(contract_bytecode) :
               result.contract.bytecode[i] =
                   IF /\ contract_bytecode[i].t = "lib"
                      /\ contract_bytecode[i].name \in ResolvedNames
                   THEN Addr(ResolvedAddress(contract_bytecode[i].name))
                   ELSE contract_bytecode[i]
        /\ result.contract.params = encoded_contructor_params

\* A link with an address given for one library and another one to deploy.
C9_Witness ==
    /\ Succeeded
    /\ ResolvedNames # {}
    /\ result.libraries # <<>>
    /\ \E i \in 1..Len(result.contract.bytecode) :
           result.contract.bytecode[i].t = "addr"
    /\ \E i \in 1..Len(result.contract.bytecode) :
           result.contract.bytecode[i].t = "lib"

\* Every declared placeholder has a Resolved entry and no entry is Pending.
AllResolved ==
    /\ pc = "done"
    /\ Declared \subseteq ResolvedNames
    /\ PendingNames = {}

\* C10 as stated: when every placeholder is resolved by a Resolved entry and
\* there is no Pending entry, link() succeeds with no library to deploy and
\* a contract that converts to bytes.
C10_Original ==
    AllResolved =>
        /\ result.kind = "Ok"
        /\ result.libraries = <<>>
        /\ Bytecode_to_bytes(result.contract.bytecode).ok

\* C10: when every placeholder is resolved by a Resolved entry, there is no
\* Pending entry and no Resolved entry names an undeclared library or
\* repeats a name, link() succeeds with no library to deploy and a contract
\* that converts to bytes.
C10_AllResolved ==
    AllResolved /\ NoEntryFails =>
        /\ result.kind = "Ok"
        /\ result.libraries = <<>>
        /\ Bytecode_to_bytes(result.contract.bytecode).ok

\* Two libraries with three placeholders, all resolved with library_at.
C10_Witness ==
    /\ AllResolved
    /\ NoEntryFails
    /\ Cardinality(Declared) = 2
    /\ Len(contract_bytecode) = 4
    /\ result.kind = "Ok"

\* C11: the result of link() is a function of the linker's fields: whatever
\* link() may return for them is what it returned, also when more than one
\* Pending entry is left over.
C11_Deterministic ==
    pc = "done" =>
        \A r \in Linker_link(contract_bytecode, encoded_contructor_params,
                             libraries) : r = result

\* C12: new() fails with EmptyBytecode exactly when the bytecode of the
\* artifact has zero length, whatever the constructor and the parameters.
C12_EmptyBytecode ==
    pc # "new" =>
        (pc = "failed" /\ result.kind = "EmptyBytecode"
            <=> Len(context.bytecode) = 0)

\* An empty bytecode with parameters for a constructor the ABI does not
\* have is reported as EmptyBytecode.
C12_Witness ==
    /\ pc = "failed"
    /\ result.kind = "EmptyBytecode"
    /\ context.constructor = "none"
    /\ params # <<>>

\* The libraries a caller may add.
Libraries ==
    {Resolved(a) : a \in Addresses} \cup {Pending(b) : b \in LibraryBytecodes}

\* A linker exists and has not been linked; new() left it as it was created
\* and nothing has failed.
C13_Unvalidated ==
    pc = "linker" =>
        /\ result = NoResult
        /\ contract_bytecode = context.bytecode
        /\ Len(libraries) < MaxEntries =>
               \A n \in Names, l \in Libraries : ENABLED add_library(n, l)

\* A step from a linker to a linker appends the entry of one call and
\* leaves every other field alone.
C13_Step ==
    pc = "linker" /\ pc' = "linker" =>
        /\ contract_bytecode' = contract_bytecode
        /\ encoded_contructor_params' = encoded_contructor_params
        /\ result' = result
        /\ \E n \in Names, l \in Libraries :
               libraries' = Append(libraries, [name |-> n, library |-> l])
        /\ \A n \in Names, l \in Libraries :
               add_library(n, l) =>
                   libraries' = Append(libraries, [name |-> n, library |-> l])

\* C13: library_at and deploy_library_bytecode can always be called, fail
\* with nothing, append their entry to the entry list and leave the target
\* bytecode and the encoded constructor parameters unchanged.
C13_AddLibrary == [](C13_Unvalidated) /\ [][C13_Step]_vars

\* A linker holds a repeated entry and an entry for a library that the
\* target does not declare, and its bytecode is still the artifact's.
C13_Witness ==
    /\ pc = "linker"
    /\ Len(libraries) = 3
    /\ libraries[1] = libraries[2]
    /\ libraries[3].name \notin Declared
    /\ libraries[3].library.kind = "Resolved"
    /\ Declared # {}
    /\ contract_bytecode = context.bytecode
    /\ encoded_contructor_params # <<>>
    /\ result = NoResult

\* C17: link() reports the first entry that fails, else the first
\* placeholder that is unlinkable, else a leftover Pending entry, and
\* succeeds when there is none of them.
C17_Precedence ==
    pc = "done" =>
        IF \E i \in Entries : FirstFailure(i)
        THEN \A i \in Entries :
                 FirstFailure(i) => Failed("UnusedDependency", libraries[i].name)
        ELSE IF \E n \in Names : FirstUnlinkable(n)
        THEN \A n \in Names :
                 FirstUnlinkable(n) =>
                     Failed(IF Missing(n) THEN "MissingDependency"
                            ELSE "NestedDependencies", n)
        ELSE IF Leftover # {}
        THEN result.kind = "UnusedDependency" /\ result.name \in Leftover
        ELSE result.kind = "Ok"

\* Without a failing entry, a missing placeholder comes before a nested
\* library and both come before a leftover Pending entry.
C17_Witness ==
    /\ pc = "done"
    /\ NoEntryFails
    /\ \E n, m \in Names :
           /\ Missing(n) /\ FirstUnlinkable(n)
           /\ Failed("MissingDependency", n)
           /\ (NestedLibrary(m) \/ m \in Leftover)

(***************************************************************************)
(* Transaction signing (src/sign.rs).                                      *)
(*                                                                         *)
(* Integers are big-endian byte strings of the width of their type: a u64  *)
(* has 8 bytes and a U256 has 32.  An Option is a sequence with no element *)
(* (None) or one element (Some).                                           *)
(***************************************************************************)
U64Len == 8
U256Len == 32

PadLeft(b, n) == Repeat(0, n - Len(b)) \o b

RECURSIVE StripZeros(_)
StripZeros(b) ==
    IF b = <<>> THEN <<>>
    ELSE IF b[1] = 0 THEN StripZeros(Tail(b)) ELSE b

\* The sum of two byte strings of the same length; the first byte of the
\* result is the carry out of their width.
RECURSIVE AddFrom(_, _, _, _)
AddFrom(a, b, i, carry) ==
    IF i = 0 THEN <<carry>>
    ELSE LET sum == a[i] + b[i] + carry
         IN  AddFrom(a, b, i - 1, sum \div 256) \o <<sum % 256>>

\* An addition of two u64: the wrapped sum and whether it overflowed.
U64Add(a, b) ==
    LET sum == AddFrom(a, b, U64Len, 0)
    IN  [value |-> Tail(sum), overflow |-> sum[1] # 0]

\* The bytes of a small number and the number of a short byte string.
RECURSIVE NatToBytes(_)
NatToBytes(n) == IF n = 0 THEN <<>> ELSE NatToBytes(n \div 256) \o <<n % 256>>

RECURSIVE BytesToNat(_)
BytesToNat(b) ==
    IF b = <<>> THEN 0 ELSE BytesToNat(SubSeq(b, 1, Len(b) - 1)) * 256 + b[Len(b)]

U64(n) == PadLeft(NatToBytes(n), U64Len)
U256(b) == PadLeft(b, U256Len)

\* add_chain_replay_protection: (recovery_id as u64) + (35 + n * 2), or
\* + 27 without a chain id.  An overflowing u64 operation panics when the
\* build checks overflows and wraps otherwise.
add_chain_replay_protection(rid, chain, checks) ==
    LET twice == IF chain = <<>>
                 THEN [value |-> U64(0), overflow |-> FALSE]
                 ELSE U64Add(chain[1], chain[1])
        base == IF chain = <<>>
                THEN [value |-> U64(27), overflow |-> FALSE]
                ELSE U64Add(U64(35), twice.value)
        v == U64Add(U64(rid), base.value)
        overflow == twice.overflow \/ base.overflow \/ v.overflow
    IN  [panic |-> checks /\ overflow, v |-> v.value]

(***************************************************************************)
(* RlpStream (rlp crate).                                                  *)
(***************************************************************************)
\* The header of a string or list of the given payload length; offset is
\* 128 for a string and 192 for a list.
RlpHeader(offset, len) ==
    IF len < 56 THEN <<offset + len>>
    ELSE <<offset + 55 + Len(NatToBytes(len))>> \o NatToBytes(len)

\* The encoding of a byte string.
RlpString(b) ==
    IF Len(b) = 1 /\ b[1] < 128 THEN b ELSE RlpHeader(128, Len(b)) \o b

RlpStream_new == [buffer |-> <<>>, lists |-> <<>>]

\* note_appended: an item was added to the innermost unfinished list; a
\* list that got its last item is finished by inserting its header.  sign()
\* never nests lists.
RlpStream_note_appended(s) ==
    IF s.lists = <<>> THEN s
    ELSE LET list == s.lists[Len(s.lists)]
         IN  IF list.current + 1 < list.max
             THEN [s EXCEPT !.lists[Len(s.lists)].current = @ + 1]
             ELSE [buffer |->
                       SubSeq(s.buffer, 1, list.position)
                       \o RlpHeader(192, Len(s.buffer) - list.position)
                       \o SubSeq(s.buffer, list.position + 1, Len(s.buffer)),
                   lists |-> SubSeq(s.lists, 1, Len(s.lists) - 1)]

RlpStream_begin_list(s, len) ==
    IF len = 0
    THEN RlpStream_note_appended([s EXCEPT !.buffer = Append(@, 192)])
    ELSE [s EXCEPT !.lists =
              Append(@, [position |-> Len(s.buffer), current |-> 0, max |-> len])]

\* append of a value whose Encodable implementation writes a byte string.
RlpStream_append(s, b) ==
    RlpStream_note_appended([s EXCEPT !.buffer = @ \o RlpString(b)])

RlpStream_clear(s) == [buffer |-> <<>>, lists |-> <<>>]
RlpStream_as_raw(s) == s.buffer
RlpStream_out(s) == s.buffer

\* What append writes for an integer (U256, u64, u8): its bytes without
\* leading zeros.
EncodeUint(b) == StripZeros(b)

(***************************************************************************)
(* TransactionData.                                                        *)
(***************************************************************************)
\* The shared part of rlp_append_unsigned and rlp_append_signed.
AppendFields(s, t) ==
    LET s1 == RlpStream_append(s, EncodeUint(t.nonce))
        s2 == RlpStream_append(s1, EncodeUint(t.gas_price))
        s3 == RlpStream_append(s2, EncodeUint(t.gas))
        s4 == IF t.to # <<>> THEN RlpStream_append(s3, t.to[1])
              ELSE RlpStream_append(s3, <<>>)
        s5 == RlpStream_append(s4, EncodeUint(t.value))
    IN  RlpStream_append(s5, t.data)

\* Variant: a transaction without a receiver is encoded with the zero
\* address.
rlp_append_unsigned_zero_address(s, t, chain) ==
    LET s0 == RlpStream_begin_list(s, IF chain # <<>> THEN 9 ELSE 6)
        s6 == AppendFields(s0, [t EXCEPT !.to =
                                    IF @ = <<>> THEN <<Repeat(0, AddressLen)>>
                                    ELSE @])
    IN  IF chain # <<>>
        THEN RlpStream_append(
                 RlpStream_append(
                     RlpStream_append(s6, EncodeUint(chain[1])),
                     EncodeUint(<<0>>)),
                 EncodeUint(<<0>>))
        ELSE s6

\* TransactionData::rlp_append_unsigned
rlp_append_unsigned(s, t, chain) ==
    LET s0 == RlpStream_begin_list(s, IF chain # <<>> THEN 9 ELSE 6)
        s6 == AppendFields(s0, t)
    IN  IF chain # <<>>
        THEN RlpStream_append(
                 RlpStream_append(
                     RlpStream_append(s6, EncodeUint(chain[1])),
                     EncodeUint(<<0>>)),
                 EncodeUint(<<0>>))
        ELSE s6

\* TransactionData::rlp_append_signed: the stream with the signed list, or
\* a panic of add_chain_replay_protection.
rlp_append_signed(s, t, rid, signature, chain, checks) ==
    LET v == add_chain_replay_protection(rid, chain, checks)
        sig_r == SubSeq(signature, 1, 32)
        sig_s == SubSeq(signature, 33, 64)
        s0 == RlpStream_begin_list(s, 9)
        s6 == AppendFields(s0, t)
    IN  [panic |-> v.panic,
         v |-> v.v,
         rlp |-> RlpStream_append(
                     RlpStream_append(
                         RlpStream_append(s6, EncodeUint(v.v)),
                         EncodeUint(U256(sig_r))),
                     EncodeUint(U256(sig_s)))]

(***************************************************************************)
(* The primitives sign() calls.  A hash and a signature are stand-ins that *)
(* depend on every byte of their input.                                    *)
(***************************************************************************)
RECURSIVE WeightedSum(_, _, _)
WeightedSum(b, i, j) ==
    IF j > Len(b) THEN 0 ELSE b[j] * (i + j) + WeightedSum(b, i, j + 1)

\* hash::keccak256: 32 bytes.
keccak256(b) == [i \in 1..32 |-> (WeightedSum(b, i, 1) + Len(b) + i) % 256]

\* sign_recoverable(..).serialize_compact(): the 64 bytes of r and s.
sign_recoverable(message, k) ==
    [i \in 1..64 |->
        IF i <= 32 THEN (message[i] + k[i]) % 256
        ELSE (message[i - 32] * 7 + k[i - 32] + i) % 256]

(***************************************************************************)
(* TransactionData::sign.                                                  *)
(***************************************************************************)
ZeroAddress == Repeat(0, AddressLen)

Transactions ==
    [nonce : {U256(<<>>), U256(<<42>>)},
     gas_price : {U256(<<1, 101, 160, 188, 0>>)},
     gas : {U256(<<30, 132, 128>>)},
     to : {<<>>, <<ZeroAddress>>, <<Repeat(241, AddressLen)>>},
     value : {U256(<<>>), U256(<<59, 154, 202, 0>>)},
     data : {<<>>, <<96, 0, 128, 253>>}]

Keys == {[i \in 1..32 |-> (76 + 11 * i) % 256]}

\* None, 1, 5777 and chain ids around 2^63, where n * 2 + 35 leaves u64.
ChainIds ==
    {<<>>, <<U64(1)>>, <<U64(5777)>>,
     <<<<127, 255, 255, 255, 255, 255, 255, 237>>>>,
     <<<<127, 255, 255, 255, 255, 255, 255, 238>>>>,
     <<<<128, 0, 0, 0, 0, 0, 0, 0>>>>,
     <<<<255, 255, 255, 255, 255, 255, 255, 255>>>>}

SignInit ==
    /\ LinkerInit
    /\ sign_pc = "start"
    /\ tx \in Transactions
    /\ key \in Keys
    /\ chain_id \in ChainIds
    /\ overflow_checks \in BOOLEAN
    /\ unsigned = <<>>
    /\ hash = <<>>
    /\ recovery_id = 0
    /\ sig = <<>>
    /\ sig_v = <<>>
    /\ raw = <<>>

\* TransactionData::sign.  The recovery id is whichever of 0 and 1 the
\* signature has.
sign(rid) ==
    /\ sign_pc = "start"
    /\ LET rlp1 == rlp_append_unsigned(RlpStream_new, tx, chain_id)
           message == keccak256(RlpStream_as_raw(rlp1))
           rlp2 == RlpStream_clear(rlp1)
           signature == sign_recoverable(message, key)
           signed == rlp_append_signed(rlp2, tx, rid, signature, chain_id,
                                       overflow_checks)
       IN  /\ unsigned' = RlpStream_as_raw(rlp1)
           /\ hash' = message
           /\ recovery_id' = rid
           /\ sig' = signature
           /\ IF signed.panic
              THEN sign_pc' = "panic" /\ sig_v' = <<>> /\ raw' = <<>>
              ELSE /\ sign_pc' = "done"
                   /\ sig_v' = signed.v
                   /\ raw' = RlpStream_out(signed.rlp)
    /\ UNCHANGED <<tx, key, chain_id, overflow_checks>>
    /\ UNCHANGED linker_vars

SignNext == \E rid \in {0, 1} : sign(rid)

SignSpec == SignInit /\ [][SignNext]_vars

SignTypeOK ==
    /\ sign_pc \in {"start", "done", "panic"}
    /\ sign_pc = "done" => Len(sig_v) = U64Len /\ Len(sig) = 64 /\ Len(hash) = 32


(***************************************************************************)
(* Reading an encoding back.  RlpDecodeList is written from the format,    *)
(* not from RlpStream: the byte strings of a list whose payload fills the  *)
(* input exactly, or a failure.                                            *)
(***************************************************************************)
RECURSIVE RlpDecodeItems(_, _)
RlpDecodeItems(b, i) ==
    IF i > Len(b) THEN [ok |-> TRUE, items |-> <<>>]
    ELSE LET first == b[i]
             long == first - 183
             start == IF first < 128 THEN i
                      ELSE IF first <= 183 THEN i + 1
                      ELSE i + 1 + long
             len == IF first < 128 THEN 1
                    ELSE IF first <= 183 THEN first - 128
                    ELSE IF i + long <= Len(b)
                         THEN BytesToNat(SubSeq(b, i + 1, i + long))
                         ELSE Len(b) + 1
             item == SubSeq(b, start, start + len - 1)
             rest == RlpDecodeItems(b, start + len)
         IN  IF first >= 192 \/ start + len - 1 > Len(b)
                \/ (first = 129 /\ item[1] < 128)
                \/ (first > 183 /\ len < 56)
             THEN [ok |-> FALSE, items |-> <<>>]
             ELSE [ok |-> rest.ok, items |-> <<item>> \o rest.items]

RlpDecodeList(b) ==
    IF b = <<>> \/ b[1] < 192 THEN [ok |-> FALSE, items |-> <<>>]
    ELSE LET long == b[1] - 247
             start == IF b[1] <= 247 THEN 2 ELSE 2 + long
             len == IF b[1] <= 247 THEN b[1] - 192
                    ELSE IF 1 + long <= Len(b)
                         THEN BytesToNat(SubSeq(b, 2, 1 + long))
                         ELSE Len(b) + 1
         IN  IF start + len - 1 # Len(b) \/ (b[1] > 247 /\ len < 56)
             THEN [ok |-> FALSE, items |-> <<>>]
             ELSE RlpDecodeItems(SubSeq(b, start, Len(b)), 1)

\* The item is the integer: big-endian, with no leading zero byte.
IsUint(item, value) ==
    /\ Len(item) <= Len(value)
    /\ item = <<>> \/ item[1] # 0
    /\ PadLeft(item, Len(value)) = value

\* The item is to_or_empty of the transaction.
IsToOrEmpty(item) ==
    IF tx.to = <<>> THEN item = <<>> ELSE item = tx.to[1]

\* The first six items are the fields of the transaction.
IsTransaction(items) ==
    /\ Len(items) >= 6
    /\ IsUint(items[1], tx.nonce)
    /\ IsUint(items[2], tx.gas_price)
    /\ IsUint(items[3], tx.gas)
    /\ IsToOrEmpty(items[4])
    /\ IsUint(items[5], tx.value)
    /\ items[6] = tx.data

Signed == sign_pc = "done"
Hashed == sign_pc \in {"done", "panic"}

\* recovery_id + chain_id * 2 + 35, or recovery_id + 27, as an integer: in
\* two bytes more than a u64, which hold every such sum.
WideLen == U64Len + 2

WideAdd(a, b) == Tail(AddFrom(a, b, WideLen, 0))

Wide(b) == PadLeft(b, WideLen)

ExactV ==
    IF chain_id = <<>> THEN WideAdd(Wide(<<recovery_id>>), Wide(<<27>>))
    ELSE WideAdd(Wide(<<recovery_id>>),
                 WideAdd(WideAdd(Wide(chain_id[1]), Wide(chain_id[1])),
                         Wide(<<35>>)))

\* C14: once sign() has computed v, there was no overflow failure and v is
\* recovery_id + chain_id * 2 + 35 as an integer when a chain id is given
\* and recovery_id + 27 when none is given.
C14_ReplayProtection ==
    Hashed => sign_pc = "done" /\ Wide(sig_v) = ExactV

\* C15: the payload sign() hashes is the encoding of the list of nonce,
\* gas_price, gas, to_or_empty, value and data, followed by chain_id, 0 and
\* 0 when a chain id is given and by nothing otherwise; to_or_empty is the
\* 20 bytes of the recipient, or the empty string without a recipient.
C15_UnsignedPayload ==
    Hashed =>
        LET list == RlpDecodeList(unsigned)
        IN  /\ hash = keccak256(unsigned)
            /\ list.ok
            /\ IsTransaction(list.items)
            /\ IF chain_id = <<>> THEN Len(list.items) = 6
               ELSE /\ Len(list.items) = 9
                    /\ IsUint(list.items[7], chain_id[1])
                    /\ list.items[8] = <<>>
                    /\ list.items[9] = <<>>

\* A contract creation was hashed with a chain id: 9 fields, of which the
\* fourth is the empty string and not the zero address.
C15_Witness ==
    /\ Hashed
    /\ tx.to = <<>>
    /\ chain_id # <<>>
    /\ Len(RlpDecodeList(unsigned).items) = 9
    /\ RlpDecodeList(unsigned).items[4] = <<>>
    /\ RlpDecodeList(unsigned).items[4] # ZeroAddress

\* C16: the bytes sign() returns are the encoding of one list of 9 fields:
\* the six fields of the hashed payload, then v, r and s of the signature
\* over the hash of that payload, and nothing of the unsigned encoding.
C16_SignedEncoding ==
    Signed =>
        LET list == RlpDecodeList(raw)
            payload == RlpDecodeList(unsigned)
            signature == sign_recoverable(keccak256(unsigned), key)
        IN  /\ list.ok
            /\ Len(list.items) = 9
            /\ IsTransaction(list.items)
            /\ payload.ok
            /\ SubSeq(list.items, 1, 6) = SubSeq(payload.items, 1, 6)
            /\ Len(list.items[7]) <= WideLen
            /\ list.items[7] = StripZeros(ExactV)
            /\ IsUint(list.items[8], SubSeq(signature, 1, 32))
            /\ IsUint(list.items[9], SubSeq(signature, 33, 64))

\* What is left of C16 apart from the value of v: the list sign() returns
\* has the six fields, what add_chain_replay_protection returned, and r and
\* s, and it starts at the first byte of the output.
C16_ClearedEncoder ==
    Signed =>
        LET list == RlpDecodeList(raw)
            signature == sign_recoverable(keccak256(unsigned), key)
        IN  /\ list.ok
            /\ Len(list.items) = 9
            /\ IsTransaction(list.items)
            /\ IsUint(list.items[7], sig_v)
            /\ IsUint(list.items[8], SubSeq(signature, 1, 32))
            /\ IsUint(list.items[9], SubSeq(signature, 33, 64))

====
